---- MODULE Spec2Model ----
(***************************************************************************)
(* State-machine model of sde_scrapper.py: the check_and_notify cycle      *)
(* (load, scrape, diff, format, send, save), the JSON state file, and the  *)
(* scheduler lifecycle (start_scheduler / stop_scheduler / run_scheduler)  *)
(* driven from control-panel sessions and background threads.              *)
(***************************************************************************)
EXTENDS Integers, Sequences, FiniteSets, TLC

\* ------------------------------------------------------------------ bounds
MaxLen == 2       \* longest list of records a fetch or a stored file holds
MaxCycles == 2    \* check_and_notify calls begun in one behaviour
MaxThreads == 2   \* scheduler threads that exist at one time

\* ------------------------------------------------------------------- data
Titles == {"A", "B"}

\* a record as scrape_website builds it: {"title": title}
Records == {[title |-> t] : t \in Titles}

SeqsUpTo(S, n) == UNION {[1..k -> S] : k \in 0..n}

\* every {"news": [...]} with at most MaxLen records
AllSnapshots == {[news |-> s] : s \in SeqsUpTo(Records, MaxLen)}

\* the empty Snapshot {"news": []}
EmptyData == [news |-> <<>>]

\* a JSON value that parses but holds no "news" list, e.g. {}
BadJson == [other |-> "x"]

HasNews(d) == "news" \in DOMAIN d

\* the state file previous_data.json: absent, unparseable text (empty or a
\* partial write), or parseable JSON holding data
NoFile == [state |-> "absent", data |-> EmptyData]
Garbage == [state |-> "garbage", data |-> EmptyData]
Json(d) == [state |-> "json", data |-> d]

\* the small data of the concurrent specification
SmallSnapshots == {[news |-> <<>>], [news |-> <<[title |-> "A"]>>],
                   [news |-> <<[title |-> "A"], [title |-> "B"]>>]}
SmallFiles == {NoFile, Json(BadJson), Json([news |-> <<[title |-> "A"]>>])}
AllFiles == {NoFile, Garbage, Json(BadJson)} \cup {Json(d) : d \in AllSnapshots}

\* .env: TELEGRAM_TOKEN, TELEGRAM_CHAT_ID, NOTIFICATION_TIME
Times == {"09:00", "18:00"}
DefaultEnv == [telegram_token |-> "tok", telegram_chat_id |-> "chat",
               notification_time |-> "09:00"]
\* configurations that differ in the daily time, or in the credentials
TimeChoices == {[DefaultEnv EXCEPT !.notification_time = t] : t \in Times}
CredentialChoices == {DefaultEnv,
                      [DefaultEnv EXCEPT !.telegram_token = ""],
                      [DefaultEnv EXCEPT !.telegram_chat_id = ""]}
\* what the "Save Configuration" button may write
ConfigChoices ==
    TimeChoices \cup {[DefaultEnv EXCEPT !.telegram_token = ""]}
\* the page as the configuration specification fetches it
OnePage == {[news |-> <<[title |-> "A"]>>]}
\* the page that stays the same for ever
LivePage == {[news |-> <<[title |-> "A"], [title |-> "B"]>>]}

\* the part of the configuration check_and_notify reads
Credentials(e) == [telegram_token |-> e.telegram_token,
                   telegram_chat_id |-> e.telegram_chat_id]

\* control-panel sessions carry negative ids, scheduler threads positive ones
Sessions == {-1, -2}
Threads == 1..MaxThreads
Procs == Sessions \cup Threads
Foreground == -1

VARIABLES
    file,               \* content of DATA_FILE
    env,                \* content of ENV_FILE
    scheduler_running,  \* global flag
    scheduler_thread,   \* global: the last thread created, 0 for None
    jobs,               \* schedule's job list: set of [id, at]
    due,                \* ids of listed jobs whose next_run has been reached
    pc,                 \* position of every session and thread
    cyc,                \* check_and_notify's frame, per caller
    thr,                \* run_scheduler's frame, per thread
    cycles,             \* check_and_notify calls begun so far
    clock,              \* fetches made so far (stamps a fetch, if kept)
    latest,             \* the delivered fetch with the largest stamp (if kept)
    save_failed,        \* some save_data call has failed (if kept)
    stop_requested,     \* threads whose start() was followed by a stop()
    hist                \* the finished check_and_notify calls: the last two,
                        \* the last one while another runs (if kept)

vars == <<file, env, scheduler_running, scheduler_thread, jobs, due, pc, cyc,
          thr, cycles, clock, latest, save_failed, stop_requested, hist>>

\* ------------------------------------------------------- pure functions
\* load_previous_data ignoring the stored file
LoadAlwaysEmpty(f) == EmptyData

\* load_previous_data: the empty Snapshot when the file is absent or json.load
\* raises; otherwise whatever JSON value the file holds
load_previous_data(f) ==
    IF f.state = "absent" THEN EmptyData
    ELSE IF f.state = "garbage" THEN EmptyData
    ELSE f.data

\* a membership test that looks at the first stored record only
NotInFirst(item, list) == list = <<>> \/ list[1] # item

\* item not in previous_data["news"]
NotIn(item, list) == \A j \in 1..Len(list) : list[j] # item

RECURSIVE Comprehension(_, _)
\* [item for item in cur if item not in prev]
Comprehension(cur, prev) ==
    IF cur = <<>> THEN <<>>
    ELSE IF NotIn(Head(cur), prev)
         THEN <<Head(cur)>> \o Comprehension(Tail(cur), prev)
         ELSE Comprehension(Tail(cur), prev)

find_new_items(current_data, previous_data) ==
    [news |-> Comprehension(current_data.news, previous_data.news)]

\* find_new_items and format_message index previous_data["news"]: KeyError
Raises(previous_data) == ~HasNews(previous_data)

\* the credentials test looking at the token only
TokenMissing(config) == config.telegram_token = ""

\* format_message (152-188): the message as its lines; a line carries its
\* kind and, for a listed record, its number, title and link
TextLine(kind) == [kind |-> kind, n |-> 0, title |-> "", link |-> ""]

\* item.get('url'): the link of a record that has one
Url(item) == IF "url" \in DOMAIN item THEN item.url ELSE ""

\* the records numbered from 0
NumberedFromZero(list, kind) ==
    [i \in 1..Len(list) |->
        [kind |-> kind, n |-> i - 1, title |-> list[i].title, link |-> Url(list[i])]]

\* lines 163-167 and 175-179: for i, item in enumerate(list, 1)
Numbered(list, kind) ==
    [i \in 1..Len(list) |->
        [kind |-> kind, n |-> i, title |-> list[i].title, link |-> Url(list[i])]]

format_message(new_items, previous_data) ==
    <<TextLine("header"), TextLine("blank")>>
    \o (IF new_items.news # <<>>
        THEN <<TextLine("new_title"), TextLine("rule")>>
             \o Numbered(new_items.news, "new") \o <<TextLine("blank")>>
        ELSE <<>>)
    \o <<TextLine("existing_title"), TextLine("rule")>>
    \o (IF previous_data.news # <<>>
        THEN Numbered(previous_data.news, "existing")
        ELSE <<TextLine("placeholder")>>)
    \o <<TextLine("blank"), TextLine("rule"), TextLine("footer")>>

\* send_telegram_message_async line 131
CredentialsMissing(config) ==
    config.telegram_token = "" \/ config.telegram_chat_id = ""

\* --------------------------------------------------------------- initial
NoFrame == [config |-> Credentials(DefaultEnv), previous_data |-> EmptyData,
            current_data |-> EmptyData, new_items |-> EmptyData,
            message |-> <<>>, before |-> NoFile, stamp |-> 0,
            attempted |-> FALSE, success |-> FALSE]
NoThreadFrame == [notification_time |-> "09:00", runnable |-> <<>>]
NoLatest == [stamp |-> 0, data |-> EmptyData]

InitWith(files, envs) ==
    /\ file \in files
    /\ env \in envs
    /\ scheduler_running = FALSE
    /\ scheduler_thread = 0
    /\ jobs = {}
    /\ due = {}
    /\ pc = [p \in Procs |-> IF p \in Sessions THEN "idle" ELSE "none"]
    /\ cyc = [p \in Procs |-> NoFrame]
    /\ thr = [t \in Threads |-> NoThreadFrame]
    /\ cycles = 0
    /\ clock = 0
    /\ latest = NoLatest
    /\ save_failed = FALSE
    /\ stop_requested = {}
    /\ hist = <<>>

Init == InitWith(SmallFiles, {DefaultEnv})
InitAlone == InitWith(AllFiles, CredentialChoices)
InitConfig == InitWith({NoFile}, {DefaultEnv})
InitLive == InitWith(AllFiles, TimeChoices)

\* ------------------------------------------------ check_and_notify (190-213)
CyclePcs == {"load", "scrape", "diff", "send", "save", "write"}

\* the empty check left out
NeverAborts(current_data) == FALSE

\* line 198: if not current_data["news"]: return
AbortsOnEmpty(current_data) == current_data.news = <<>>

\* the save done whatever delivery reported
AlwaysSave(success) == TRUE

\* the save done when delivery failed instead
SaveUnlessDelivered(success) == ~success

\* line 209: if success: save_data(current_data)
ShouldSave(success) == success

\* a save that leaves an empty Snapshot behind
WrittenNothing(data) == Json(EmptyData)

\* what save_data's completed json.dump leaves in the file (82-83)
Written(data) == Json(data)

\* may the caller enter check_and_notify: the "Run Scraper Now" button of an
\* idle session (330-332), or a thread's run_pending with a runnable job (263)
MayBegin(p) ==
    IF p \in Sessions THEN pc[p] = "idle"
    ELSE pc[p] = "runjobs" /\ thr[p].runnable # <<>>

\* the last entry of a history: what is kept of it when a new call begins
LastOne(h) == IF Len(h) <= 1 THEN h ELSE Tail(h)

\* the call returns or raises and its frame is gone: the session is idle
\* again (333), the thread reschedules the job it ran and goes on with
\* run_pending, or dies with the exception (263). `keep` names the record
\* kept of the cycles: "history" (hist), "latest" (latest, save_failed and
\* the fetch stamps) or "none".
Return(p, frame, outcome, after, keep) ==
    /\ hist' = IF keep = "history"
               THEN Append(hist, [who |-> p, frame |-> frame,
                                  outcome |-> outcome, after |-> after])
               ELSE hist
    /\ cyc' = [cyc EXCEPT ![p] = NoFrame]
    /\ IF p \in Sessions
       THEN /\ pc' = [pc EXCEPT ![p] = "idle"]
            /\ UNCHANGED <<thr, due>>
       ELSE IF outcome = "exception"
       THEN /\ pc' = [pc EXCEPT ![p] = "crashed"]
            /\ thr' = [thr EXCEPT ![p] = NoThreadFrame]
            /\ due' = due
       ELSE /\ pc' = [pc EXCEPT ![p] = "runjobs"]
            /\ due' = due \ {Head(thr[p].runnable)}
            /\ thr' = [thr EXCEPT ![p].runnable = Tail(@)]

\* line 194: config = get_env_config(); the calls are counted (and bounded)
\* where a record of the cycles is kept
get_env_config(p, keep) ==
    /\ MayBegin(p)
    /\ cycles < MaxCycles
    /\ cycles' = IF keep = "none" THEN cycles ELSE cycles + 1
    /\ cyc' = [cyc EXCEPT ![p] = [NoFrame EXCEPT !.config = Credentials(env)]]
    /\ pc' = [pc EXCEPT ![p] = "load"]
    /\ hist' = LastOne(hist)
    /\ UNCHANGED <<file, env, scheduler_running, scheduler_thread, jobs, due,
                   thr, clock, latest, save_failed, stop_requested>>

\* line 195: previous_data = load_previous_data()
LoadPrevious(p) ==
    /\ pc[p] = "load"
    /\ cyc' = [cyc EXCEPT ![p].previous_data = load_previous_data(file),
                          ![p].before = file]
    /\ pc' = [pc EXCEPT ![p] = "scrape"]
    /\ UNCHANGED <<file, env, scheduler_running, scheduler_thread, jobs, due,
                   thr, cycles, clock, latest, save_failed, stop_requested,
                   hist>>

\* line 196: current_data = scrape_website(); the page holds any list of
\* records, and every failure gives {"news": []}
scrape_website(p, results, keep) ==
    /\ pc[p] = "scrape"
    /\ \E c \in results :
         cyc' = [cyc EXCEPT ![p].current_data = c,
                            ![p].stamp = IF keep = "latest" THEN clock + 1 ELSE 0]
    /\ clock' = IF keep = "latest" THEN clock + 1 ELSE clock
    /\ pc' = [pc EXCEPT ![p] = "diff"]
    /\ UNCHANGED <<file, env, scheduler_running, scheduler_thread, jobs, due,
                   thr, cycles, latest, save_failed, stop_requested, hist>>

\* lines 198-206: the empty check, find_new_items and format_message
DiffAndFormat(p, keep) ==
    /\ pc[p] = "diff"
    /\ IF AbortsOnEmpty(cyc[p].current_data)
       THEN Return(p, cyc[p], "abort_empty", file, keep)
       ELSE IF Raises(cyc[p].previous_data)
       THEN Return(p, cyc[p], "exception", file, keep)
       ELSE /\ LET new_items == find_new_items(cyc[p].current_data,
                                                 cyc[p].previous_data)
               IN  cyc' = [cyc EXCEPT
                              ![p].new_items = new_items,
                              ![p].message =
                                  format_message(new_items, cyc[p].previous_data)]
            /\ pc' = [pc EXCEPT ![p] = "send"]
            /\ UNCHANGED <<thr, due, hist>>
    /\ UNCHANGED <<file, env, scheduler_running, scheduler_thread, jobs,
                   cycles, clock, latest, save_failed, stop_requested>>

\* lines 207-213: success = send_telegram_message(message, config), then the
\* branch on success; the channel delivers or raises (caught, False)
SendMessage(p, keep) ==
    /\ pc[p] = "send"
    /\ \E delivered \in BOOLEAN :
         LET attempt == ~CredentialsMissing(cyc[p].config)
             ok == attempt /\ delivered
             frame == [cyc[p] EXCEPT !.attempted = attempt, !.success = ok]
         IN  /\ attempt \/ ~delivered
             /\ latest' = IF keep = "latest" /\ ok /\ frame.stamp > latest.stamp
                          THEN [stamp |-> frame.stamp, data |-> frame.current_data]
                          ELSE latest
             /\ IF ShouldSave(ok)
                THEN /\ cyc' = [cyc EXCEPT ![p] = frame]
                     /\ pc' = [pc EXCEPT ![p] = "save"]
                     /\ UNCHANGED <<thr, due, hist>>
                ELSE Return(p, frame, "not_saved", file, keep)
    /\ UNCHANGED <<file, env, scheduler_running, scheduler_thread, jobs,
                   cycles, clock, save_failed, stop_requested>>

\* save_data line 82: open(file_path, 'w') truncates the file, or raises and
\* the except clause logs (85-86)
SaveOpen(p, keep) ==
    /\ pc[p] = "save"
    /\ \/ /\ file' = Garbage
          /\ pc' = [pc EXCEPT ![p] = "write"]
          /\ UNCHANGED <<cyc, thr, due, hist, save_failed>>
       \/ /\ file' = file
          /\ save_failed' = (save_failed \/ keep = "latest")
          /\ Return(p, cyc[p], "save_failed", file, keep)
    /\ UNCHANGED <<env, scheduler_running, scheduler_thread, jobs, cycles,
                   clock, latest, stop_requested>>

\* save_data line 83: json.dump completes, or raises part-way and leaves a
\* truncated text behind (85-86)
SaveWrite(p, keep) ==
    /\ pc[p] = "write"
    /\ \/ /\ file' = Written(cyc[p].current_data)
          /\ save_failed' = save_failed
          /\ Return(p, cyc[p], "saved", Written(cyc[p].current_data), keep)
       \/ /\ file' = Garbage
          /\ save_failed' = (save_failed \/ keep = "latest")
          /\ Return(p, cyc[p], "save_failed", Garbage, keep)
    /\ UNCHANGED <<env, scheduler_running, scheduler_thread, jobs, cycles,
                   clock, latest, stop_requested>>

\* one step of check_and_notify by caller p, fetching from `results`
check_and_notify(p, results, keep) ==
    \/ get_env_config(p, keep)
    \/ LoadPrevious(p)
    \/ scrape_website(p, results, keep)
    \/ DiffAndFormat(p, keep)
    \/ SendMessage(p, keep)
    \/ SaveOpen(p, keep)
    \/ SaveWrite(p, keep)

\* ------------------------------------------- scheduler lifecycle (243-291)
\* the running test left out of start_scheduler
MayStartAlways(running) == TRUE

\* line 272: if not scheduler_running
MayStart(running) == ~running

\* line 286: if scheduler_running
MayStop(running) == running

\* free thread slots (a thread that returned leaves none behind), and the
\* starts that will each take one
Unborn == {t \in Threads : pc[t] = "none"}
Starting == {s \in Sessions : pc[s] \in {"start_set", "start_spawn"}}

\* the thread is in run_scheduler's while loop (262-264), a cycle included
LoopPcs == {"loop", "runjobs"} \cup CyclePcs
Alive(t) == pc[t] \in LoopPcs

\* schedule.run_pending: the due jobs of the job list, in order
RECURSIVE SortedIds(_)
SortedIds(S) ==
    IF S = {} THEN <<>>
    ELSE LET m == CHOOSE x \in S : \A y \in S : x <= y
         IN  <<m>> \o SortedIds(S \ {m})
Runnable == SortedIds({j.id : j \in jobs} \cap due)

\* start_scheduler line 272, with the return False of line 280
StartCheck(s) ==
    /\ pc[s] = "idle"
    /\ IF MayStart(scheduler_running)
       THEN /\ Cardinality(Unborn) > Cardinality(Starting)
            /\ pc' = [pc EXCEPT ![s] = "start_set"]
       ELSE pc' = [pc EXCEPT ![s] = "start_false"]
    /\ UNCHANGED <<file, env, scheduler_running, scheduler_thread, jobs, due,
                   cyc, thr, cycles, clock, latest, save_failed,
                   stop_requested, hist>>

\* start_scheduler line 273
StartSet(s) ==
    /\ pc[s] = "start_set"
    /\ scheduler_running' = TRUE
    /\ pc' = [pc EXCEPT ![s] = "start_spawn"]
    /\ UNCHANGED <<file, env, scheduler_thread, jobs, due, cyc, thr, cycles,
                   clock, latest, save_failed, stop_requested, hist>>

\* start_scheduler lines 274-278: the thread is created and started, and the
\* call returns True
StartSpawn(s) ==
    /\ pc[s] = "start_spawn"
    /\ Unborn # {}
    /\ LET t == CHOOSE x \in Unborn : \A y \in Unborn : x <= y
       IN  /\ scheduler_thread' = t
           /\ pc' = [pc EXCEPT ![s] = "start_true", ![t] = "sched_config"]
    /\ UNCHANGED <<file, env, scheduler_running, jobs, due, cyc, thr, cycles,
                   clock, latest, save_failed, stop_requested, hist>>

\* stop_scheduler line 286, with the return False of line 291
StopCheck(s) ==
    /\ pc[s] = "idle"
    /\ IF MayStop(scheduler_running)
       THEN pc' = [pc EXCEPT ![s] = "stop_set"]
       ELSE pc' = [pc EXCEPT ![s] = "stop_false"]
    /\ UNCHANGED <<file, env, scheduler_running, scheduler_thread, jobs, due,
                   cyc, thr, cycles, clock, latest, save_failed,
                   stop_requested, hist>>

\* stop_scheduler lines 287-289: the flag is cleared and the call returns True
StopSet(s) ==
    /\ pc[s] = "stop_set"
    /\ scheduler_running' = FALSE
    /\ pc' = [pc EXCEPT ![s] = "stop_true"]
    /\ stop_requested' = stop_requested \cup
                            {t \in Threads : t = scheduler_thread /\ Alive(t)}
    /\ UNCHANGED <<file, env, scheduler_thread, jobs, due, cyc, thr, cycles,
                   clock, latest, save_failed, hist>>

\* main lines 342-346 and 350-354: the panel shows what the call returned
ReturnPcs == {"start_true", "start_false", "stop_true", "stop_false"}
Report(s) ==
    /\ pc[s] \in ReturnPcs
    /\ pc' = [pc EXCEPT ![s] = "idle"]
    /\ UNCHANGED <<file, env, scheduler_running, scheduler_thread, jobs, due,
                   cyc, thr, cycles, clock, latest, save_failed,
                   stop_requested, hist>>

\* main lines 322-327: the "Save Configuration" button
SaveConfiguration(s, choices) ==
    /\ pc[s] = "idle"
    /\ \E e \in choices : env' = e
    /\ UNCHANGED <<file, scheduler_running, scheduler_thread, jobs, due, pc,
                   cyc, thr, cycles, clock, latest, save_failed,
                   stop_requested, hist>>

\* run_scheduler lines 251-256: the daily time is read and schedule.clear()
\* empties the job list
SchedConfig(t) ==
    /\ pc[t] = "sched_config"
    /\ thr' = [thr EXCEPT ![t].notification_time = env.notification_time]
    /\ jobs' = {}
    /\ due' = {}
    /\ pc' = [pc EXCEPT ![t] = "sched_do"]
    /\ UNCHANGED <<file, env, scheduler_running, scheduler_thread, cyc,
                   cycles, clock, latest, save_failed, stop_requested, hist>>

\* the daily time taken from the configuration as it is now
DailyTimeNow(t) == env.notification_time

\* line 257: the local notification_time, read at line 252
DailyTime(t) == thr[t].notification_time

\* run_scheduler line 257: schedule.every().day.at(notification_time).do(...);
\* notification_time is not read again
SchedDo(t) ==
    /\ pc[t] = "sched_do"
    /\ jobs' = jobs \cup {[id |-> t, at |-> DailyTime(t)]}
    /\ due' = due \ {t}
    /\ thr' = [thr EXCEPT ![t] = NoThreadFrame]
    /\ pc' = [pc EXCEPT ![t] = "loop"]
    /\ UNCHANGED <<file, env, scheduler_running, scheduler_thread, cyc,
                   cycles, clock, latest, save_failed, stop_requested, hist>>

\* run_scheduler lines 262-263 and 266: the while test, then run_pending's
\* list of runnable jobs, or the end of the thread
LoopCheck(t) ==
    /\ pc[t] = "loop"
    /\ IF scheduler_running
       THEN /\ pc' = [pc EXCEPT ![t] = "runjobs"]
            /\ thr' = [thr EXCEPT ![t].runnable = Runnable]
       ELSE /\ pc' = [pc EXCEPT ![t] = "none"]
            /\ thr' = [thr EXCEPT ![t] = NoThreadFrame]
    /\ stop_requested' = IF scheduler_running THEN stop_requested
                         ELSE stop_requested \ {t}
    /\ UNCHANGED <<file, env, scheduler_running, scheduler_thread, jobs, due,
                   cyc, cycles, clock, latest, save_failed, hist>>

\* run_scheduler line 264: run_pending has run its jobs; time.sleep(10)
Sleep(t) ==
    /\ pc[t] = "runjobs"
    /\ thr[t].runnable = <<>>
    /\ pc' = [pc EXCEPT ![t] = "loop"]
    /\ UNCHANGED <<file, env, scheduler_running, scheduler_thread, jobs, due,
                   cyc, thr, cycles, clock, latest, save_failed,
                   stop_requested, hist>>

\* the wall clock reaches the daily time of a registered job
Tick ==
    /\ \E j \in jobs : j.id \notin due /\ due' = due \cup {j.id}
    /\ UNCHANGED <<file, env, scheduler_running, scheduler_thread, jobs, pc,
                   cyc, thr, cycles, clock, latest, save_failed,
                   stop_requested, hist>>

\* ------------------------------------------------------- specifications
\* one step of a start or stop call of session s
start_stop(s) ==
    \/ StartCheck(s)
    \/ StartSet(s)
    \/ StartSpawn(s)
    \/ StopCheck(s)
    \/ StopSet(s)
    \/ Report(s)

\* one step of scheduler thread t outside a cycle
run_scheduler(t) ==
    \/ SchedConfig(t)
    \/ SchedDo(t)
    \/ LoopCheck(t)
    \/ Sleep(t)

\* the program with one control-panel session: manual and scheduled cycles,
\* start and stop, and the scheduler threads, interleaved
Next ==
    \/ \E p \in {Foreground} \cup Threads :
         check_and_notify(p, SmallSnapshots, "latest")
    \/ start_stop(Foreground)
    \/ \E t \in Threads : run_scheduler(t)
    \/ Tick

Spec == Init /\ [][Next]_vars

\* the controls of two concurrent sessions and the scheduler threads, while
\* no cycle runs
NextControl ==
    \/ \E s \in Sessions : start_stop(s)
    \/ \E t \in Threads : run_scheduler(t)

SpecControl == Init /\ [][NextControl]_vars

\* one session that starts, stops, edits the configuration and runs manual
\* cycles, and the scheduler threads
NextConfig ==
    \/ start_stop(Foreground)
    \/ SaveConfiguration(Foreground, ConfigChoices)
    \/ check_and_notify(Foreground, OnePage, "none")
    \/ \E t \in Threads : run_scheduler(t)

SpecConfig == InitConfig /\ [][NextConfig]_vars

\* cycles run alone, one after the other, from the foreground
NextAlone == check_and_notify(Foreground, AllSnapshots, "history")

SpecAlone == InitAlone /\ [][NextAlone]_vars

\* cycles run for ever from the foreground on a page that stays the same,
\* with the credentials configured; every step that can be taken is taken in
\* the end, and delivery and the two steps of the save succeed again and
\* again
NextLive == check_and_notify(Foreground, LivePage, "none")

Delivered ==
    SendMessage(Foreground, "none") /\ pc'[Foreground] = "save"
Opened ==
    SaveOpen(Foreground, "none") /\ pc'[Foreground] = "write"
Stored ==
    SaveWrite(Foreground, "none") /\ file'.state = "json"

SpecLive ==
    /\ InitLive /\ [][NextLive]_vars
    /\ WF_vars(NextLive)
    /\ SF_vars(Delivered) /\ SF_vars(Opened) /\ SF_vars(Stored)

\* ----------------------------------------------------------------- claims
Finished == {hist[i] : i \in 1..Len(hist)}
NonEmptyFetch(h) == h.frame.current_data.news # <<>>
SaveAttempted(h) == h.outcome \in {"saved", "save_failed"}

\* C1 as stated: after a cycle run alone with a non-empty fetch C, the stored
\* Snapshot is C when delivery reported success and is the prior one, P,
\* unchanged when delivery reported failure.
C1_PersistedIffDelivered ==
    \A h \in Finished :
        NonEmptyFetch(h) =>
            /\ h.frame.success => h.after = Json(h.frame.current_data)
            /\ ~h.frame.success => h.after = h.frame.before

\* C1 amended: after a cycle run alone with a non-empty fetch C, save_data is
\* called if and only if delivery reported success; the stored file is C when
\* that save completed, and is unchanged when delivery reported failure. The
\* file left by the last finished cycle is the file the next one finds.
C1_SavedIffDeliveredAndWritten ==
    /\ \A h \in Finished :
          NonEmptyFetch(h) =>
              /\ SaveAttempted(h) <=> h.frame.success
              /\ h.outcome = "saved" => h.after = Json(h.frame.current_data)
              /\ ~h.frame.success => h.after = h.frame.before
    /\ (hist # <<>> /\ pc[Foreground] = "idle") => file = hist[Len(hist)].after

\* C1 witness: one cycle delivered and replaced the stored Snapshot, another
\* failed to deliver a non-empty fetch.
C1_Witness ==
    /\ \E h \in Finished :
          h.outcome = "saved" /\ h.after # h.frame.before /\ h.frame.success
    /\ \E h \in Finished :
          NonEmptyFetch(h) /\ h.frame.attempted /\ ~h.frame.success

\* C2: a cycle whose fetch is empty ends before the diff: no delivery is
\* attempted, no save is made, the stored file is what it was at load; and no
\* cycle reaches delivery or save with an empty fetch.
C2_EmptyFetchAborts ==
    /\ \A h \in Finished :
          ~NonEmptyFetch(h) =>
              /\ h.outcome = "abort_empty"
              /\ ~h.frame.attempted /\ ~h.frame.success
              /\ h.frame.new_items = EmptyData
              /\ h.after = h.frame.before
    /\ (/\ hist # <<>> /\ pc[Foreground] = "idle"
        /\ ~NonEmptyFetch(hist[Len(hist)]))
          => file = hist[Len(hist)].frame.before
    /\ pc[Foreground] \in {"send", "save", "write"} =>
          cyc[Foreground].current_data.news # <<>>

\* C2 witness: an empty fetch met a stored Snapshot that holds records, and
\* the cycle is over.
C2_Witness ==
    /\ pc[Foreground] = "idle"
    /\ Len(hist) = 1
    /\ hist[1].outcome = "abort_empty"
    /\ hist[1].frame.before.state = "json"
    /\ HasNews(hist[1].frame.before.data)
    /\ hist[1].frame.before.data.news # <<>>
    /\ file = hist[1].frame.before

\* the places of C whose record has no equal record in P
NewPlaces(C, P) == {i \in 1..Len(C) : \A j \in 1..Len(P) : P[j] # C[i]}

\* r lists the records of C at the places `keep`, in C's order
ListsInOrder(r, C, keep) ==
    /\ Len(r) = Cardinality(keep)
    /\ \E f \in [1..Len(r) -> keep] :
          /\ \A a, b \in 1..Len(r) : a < b => f[a] < f[b]
          /\ \A a \in 1..Len(r) : r[a] = C[f[a]]

\* the frames in which find_new_items has been applied
Diffed ==
    {h.frame : h \in {g \in Finished : g.outcome \notin {"abort_empty", "exception"}}}
    \cup {cyc[p] : p \in {q \in Procs : pc[q] \in {"send", "save", "write"}}}

\* C6: find_new_items(C, P) is exactly the records of C with no equal record
\* in P, in C's order, and find_new_items(C, C) is empty.
C6_DiffIsOrderedNonMembers ==
    \A f \in Diffed :
        /\ ListsInOrder(f.new_items.news, f.current_data.news,
                        NewPlaces(f.current_data.news, f.previous_data.news))
        /\ f.current_data = f.previous_data => f.new_items.news = <<>>

\* C6 witness: a diff kept some records of C and dropped others, and another
\* diff compared C with itself.
C6_Witness ==
    /\ \E h \in Finished :
          /\ h.frame.new_items.news # <<>>
          /\ Len(h.frame.new_items.news) < Len(h.frame.current_data.news)
    /\ \E h \in Finished :
          NonEmptyFetch(h) /\ h.frame.current_data = h.frame.previous_data

\* C7 as stated: two cycles in sequence, same non-empty source, delivery
\* succeeding both times: the second finds nothing new and leaves the stored
\* Snapshot as the first left it.
C7_SecondRunFindsNothing ==
    \A i \in 1..Len(hist) - 1 :
        LET h1 == hist[i]
            h2 == hist[i + 1]
        IN  (/\ h1.frame.success /\ h2.frame.success
             /\ h1.frame.current_data = h2.frame.current_data)
            => /\ h2.frame.new_items = EmptyData
               /\ h2.after = h1.after

\* C7 amended: two cycles in sequence, same non-empty source, delivery
\* succeeding both times and the first save completing: the second finds
\* nothing new, and when its save completes too the stored Snapshot is the
\* one the first left.
C7_SecondRunAfterSaveFindsNothing ==
    \A i \in 1..Len(hist) - 1 :
        LET h1 == hist[i]
            h2 == hist[i + 1]
        IN  (/\ h1.outcome = "saved" /\ h2.frame.success
             /\ h1.frame.current_data = h2.frame.current_data)
            => /\ h2.frame.new_items = EmptyData
               /\ h2.outcome = "saved" => h2.after = h1.after

\* C7 witness: the first cycle found new records and saved, the second,
\* on the same source, delivered and saved again.
C7_Witness ==
    /\ Len(hist) = 2
    /\ hist[1].outcome = "saved" /\ hist[2].outcome = "saved"
    /\ hist[1].frame.new_items.news # <<>>
    /\ hist[1].frame.current_data = hist[2].frame.current_data

\* the callers between their load of the Snapshot and the end of their cycle
InCycle == {p \in Procs : pc[p] \in CyclePcs \ {"load"}}
Persisting == {p \in Procs : pc[p] \in {"save", "write"}}

\* C3: whenever no save is under way (and none has failed), the stored
\* Snapshot is the delivered fetch result that was fetched last.
C3_StoredIsLatestDelivered ==
    (latest.stamp > 0 /\ Persisting = {} /\ ~save_failed)
        => file = Json(latest.data)

\* C4: at most one scheduler polling loop is alive at a time.
C4_AtMostOneLoop == Cardinality({t \in Threads : Alive(t)}) <= 1

\* C5: at most one cycle is between its load of the Snapshot and its end.
C5_CyclesDoNotInterleave == Cardinality(InCycle) <= 1

\* the threads a step creates
Born == {t \in Threads : pc[t] = "none" /\ pc'[t] # "none"}

\* C8: start() goes on to set the flag only when it finds it clear, and then
\* sets it, creates one thread and returns True; when it finds the flag set
\* it returns False and changes neither flag, thread nor timer entries.
\* stop() goes on to clear the flag only when it finds it set, and then clears
\* it and returns True; when it finds the flag clear it returns False and
\* changes nothing.
C8_StartStopStateMachine ==
    [][/\ Born # {} =>
            \E s \in Sessions : pc[s] = "start_spawn" /\ pc'[s] = "start_true"
       /\ \A s \in Sessions :
         /\ (pc[s] = "idle" /\ pc'[s] = "start_set") => ~scheduler_running
         /\ (pc[s] = "start_set" /\ pc'[s] # "start_set") =>
                pc'[s] = "start_spawn" /\ scheduler_running'
         /\ (pc[s] # "start_true" /\ pc'[s] = "start_true") =>
                /\ pc[s] = "start_spawn"
                /\ Cardinality(Born) = 1
                /\ scheduler_thread' \in Born
         /\ (pc[s] = "idle" /\ pc'[s] = "start_false") =>
                /\ scheduler_running
                /\ Born = {}
                /\ UNCHANGED <<scheduler_running, scheduler_thread, jobs, due>>
         /\ (pc[s] = "idle" /\ pc'[s] = "stop_set") => scheduler_running
         /\ (pc[s] = "stop_set" /\ pc'[s] # "stop_set") =>
                pc'[s] = "stop_true" /\ ~scheduler_running'
         /\ (pc[s] = "idle" /\ pc'[s] = "stop_false") =>
                /\ ~scheduler_running
                /\ Born = {}
                /\ UNCHANGED <<scheduler_running, scheduler_thread, jobs, due,
                               thr>>
      ]_vars

\* C8 witness: with the scheduler running and its loop alive, one session's
\* start() has returned False; the other's stop() has returned True.
C8_Witness ==
    /\ pc[-1] = "start_false"
    /\ pc[-2] = "stop_true"
    /\ \E t \in Threads : Alive(t)

\* C9: once stop() has been called on a running loop, the next time that loop
\* tests the flag it terminates, whatever control calls came after the stop.
C9_StoppedLoopExits ==
    [][\A t \in Threads :
         (t \in stop_requested /\ pc[t] = "loop" /\ pc'[t] # "loop")
             => pc'[t] = "none"
      ]_vars

\* C10: no scheduler thread ends with an exception raised inside a cycle.
C10_LoopSurvivesCycle == \A t \in Threads : pc[t] # "crashed"

\* a configuration with an empty bot token or an empty chat identifier
EmptyCredential(c) == c.telegram_token = "" \/ c.telegram_chat_id = ""

\* the cycle got as far as the call of send_telegram_message
ReachedDelivery(h) == h.outcome \in {"not_saved", "saved", "save_failed"}

\* C11: a cycle whose configuration has an empty bot token or an empty chat
\* identifier makes no attempt on the messaging channel, reports delivery as
\* failed, never calls save_data, and ends with the stored file as it was
\* when the cycle loaded it.
C11_MissingCredentialsSkipDelivery ==
    /\ \A h \in Finished :
          EmptyCredential(h.frame.config) =>
              /\ ~h.frame.attempted /\ ~h.frame.success
              /\ ~SaveAttempted(h)
              /\ h.after = h.frame.before
    /\ pc[Foreground] \in {"save", "write"} =>
          ~EmptyCredential(cyc[Foreground].config)
    /\ (/\ hist # <<>> /\ pc[Foreground] = "idle"
        /\ EmptyCredential(hist[Len(hist)].frame.config))
          => file = hist[Len(hist)].frame.before

\* C11 witness: with an empty chat identifier, a cycle found new records
\* against a stored Snapshot that holds records, reached delivery and ended
\* without saving.
C11_Witness ==
    /\ pc[Foreground] = "idle"
    /\ Len(hist) = 1
    /\ hist[1].frame.config.telegram_chat_id = ""
    /\ hist[1].outcome = "not_saved"
    /\ hist[1].frame.new_items.news # <<>>
    /\ hist[1].frame.before.state = "json"
    /\ hist[1].frame.previous_data.news # <<>>
    /\ file = hist[1].frame.before

\* C12: when a cycle's delivery failed and the next cycle fetches the same
\* content, the next cycle finds the stored file as the first found it,
\* computes the same new items, and reaches delivery again (with an attempt
\* on the channel exactly when the first made one).
C12_FailedDeliveryIsRetried ==
    \A i \in 1..Len(hist) - 1 :
        LET h1 == hist[i]
            h2 == hist[i + 1]
        IN  (/\ ReachedDelivery(h1) /\ ~h1.frame.success
             /\ h1.frame.current_data = h2.frame.current_data)
            => /\ h1.after = h1.frame.before
               /\ h2.frame.before = h1.frame.before
               /\ h2.frame.previous_data = h1.frame.previous_data
               /\ h2.frame.new_items = h1.frame.new_items
               /\ ReachedDelivery(h2)
               /\ h2.frame.attempted = h1.frame.attempted

\* C12 witness: a delivery attempt failed with new records to report, and the
\* next cycle, on the same content, delivered them and saved.
C12_Witness ==
    /\ Len(hist) = 2
    /\ hist[1].outcome = "not_saved" /\ hist[1].frame.attempted
    /\ hist[1].frame.new_items.news # <<>>
    /\ hist[2].frame.current_data = hist[1].frame.current_data
    /\ hist[2].outcome = "saved"

\* C13: from the moment save_data opens the state file, the file holds either
\* the complete Snapshot being saved or the file the cycle found, also when
\* the write fails part-way.
C13_SaveIsAtomic ==
    /\ pc[Foreground] = "write" =>
          file \in {cyc[Foreground].before, Written(cyc[Foreground].current_data)}
    /\ \A h \in Finished :
          SaveAttempted(h) =>
              h.after \in {h.frame.before, Written(h.frame.current_data)}

\* what load() is to return for a stored file: the stored Snapshot when the
\* file is an object holding a 'news' list, the empty Snapshot otherwise
Loaded(f) ==
    IF f.state = "json" /\ HasNews(f.data) THEN f.data ELSE EmptyData

\* the frames whose load has been made
LoadedFrames ==
    {h.frame : h \in Finished}
    \cup {cyc[p] : p \in {q \in Procs : pc[q] \in CyclePcs \ {"load"}}}

\* C14: load() returns a well-formed Snapshot: the stored one, or the empty
\* one when the file is absent, unreadable, or parses to something that holds
\* no 'news' list; and no cycle ends with an exception.
C14_LoadGivesWellFormedSnapshot ==
    /\ \A f \in LoadedFrames :
          HasNews(f.previous_data) /\ f.previous_data = Loaded(f.before)
    /\ \A h \in Finished : h.outcome # "exception"

\* C15: an edit of the configuration changes neither the registered timer
\* entries nor the daily time a started thread has read; the entries change
\* only while a thread started by start() registers its own, which carries
\* the daily time that thread read on starting; and every cycle begins with
\* the bot token and chat identifier the configuration holds at that moment.
C15_TimeReadAtStartCredentialsEachCycle ==
    [][/\ env' # env => (jobs' = jobs /\ thr' = thr /\ cyc' = cyc)
       /\ jobs' # jobs =>
            \E t \in Threads :
                pc[t] \in {"sched_config", "sched_do"} /\ pc'[t] # pc[t]
       /\ \A t \in Threads :
            /\ (pc[t] = "sched_config" /\ pc'[t] = "sched_do") =>
                  thr'[t].notification_time = env.notification_time
            /\ (pc[t] = "sched_do" /\ pc'[t] = "loop") =>
                  jobs' = jobs \cup {[id |-> t, at |-> thr[t].notification_time]}
       /\ \A p \in Procs :
            (pc[p] \notin CyclePcs /\ pc'[p] = "load") =>
                cyc'[p].config = Credentials(env')
      ]_vars

\* C15 witness: the scheduler runs with its loop alive and a timer entry for
\* a daily time the configuration no longer holds, while a manual cycle has
\* picked up credentials edited since the start.
C15_Witness ==
    /\ scheduler_running
    /\ \E t \in Threads :
          /\ pc[t] = "loop"
          /\ \E j \in jobs : j.id = t /\ j.at # env.notification_time
    /\ pc[Foreground] = "send"
    /\ cyc[Foreground].config # Credentials(DefaultEnv)

\* the lines of message m of the given kind, in order
Section(m, kind) == SelectSeq(m, LAMBDA l : l.kind = kind)

\* where the lines of the given kind stand in message m
Places(m, kind) == {i \in 1..Len(m) : m[i].kind = kind}

\* the listing of a list of records, numbered from 1
Listing(list, kind) ==
    [i \in 1..Len(list) |->
        [kind |-> kind, n |-> i, title |-> list[i].title, link |-> ""]]

\* C16: the message has a NEW heading if and only if there are new items,
\* with every new item listed under it in order numbered from 1; one EXISTING
\* heading always follows, with every record of the Snapshot the cycle loaded
\* listed under it in order numbered from 1, or one placeholder line when
\* that Snapshot is empty.
C16_MessageSections ==
    \A f \in Diffed :
        LET m == f.message
            new == f.new_items.news
            old == f.previous_data.news
        IN  /\ (Places(m, "new_title") # {}) <=> (new # <<>>)
            /\ Cardinality(Places(m, "new_title")) <= 1
            /\ Section(m, "new") = Listing(new, "new")
            /\ Cardinality(Places(m, "existing_title")) = 1
            /\ Section(m, "existing") = Listing(old, "existing")
            /\ f.previous_data = load_previous_data(f.before)
            /\ Cardinality(Places(m, "placeholder")) = (IF old = <<>> THEN 1 ELSE 0)
            /\ \A e \in Places(m, "existing_title") :
                  /\ \A i \in Places(m, "new_title") \cup Places(m, "new") : i < e
                  /\ \A i \in Places(m, "new_title"), j \in Places(m, "new") : i < j
                  /\ \A i \in Places(m, "existing") \cup Places(m, "placeholder") :
                        e < i

\* C16 witness: previous [A], fetch [A, B]: the message reads NEW 1: B and
\* EXISTING 1: A.
C16_Witness ==
    \E h \in Finished :
        /\ h.frame.before = Json([news |-> <<[title |-> "A"]>>])
        /\ h.frame.current_data = [news |-> <<[title |-> "A"], [title |-> "B"]>>]
        /\ h.frame.message =
              << TextLine("header"), TextLine("blank"),
                 TextLine("new_title"), TextLine("rule"),
                 [kind |-> "new", n |-> 1, title |-> "B", link |-> ""],
                 TextLine("blank"),
                 TextLine("existing_title"), TextLine("rule"),
                 [kind |-> "existing", n |-> 1, title |-> "A", link |-> ""],
                 TextLine("blank"), TextLine("rule"), TextLine("footer") >>

\* the order of the steps of a cycle: from each position, the next ones
CycleEdges ==
    {<<"idle", "load">>, <<"load", "scrape">>, <<"scrape", "diff">>,
     <<"diff", "send">>, <<"diff", "idle">>, <<"send", "save">>,
     <<"send", "idle">>, <<"save", "write">>, <<"save", "idle">>,
     <<"write", "idle">>}

\* C17: a cycle takes its steps in the order load config, load Snapshot,
\* fetch, diff and format, deliver, save; the Snapshot is loaded on one step
\* only, before the fetch; the delivery step is taken at most once; and every
\* cycle that ends after a non-empty fetch has taken the delivery step, also
\* when it found nothing new.
C17_StepsInOrderOneDelivery ==
    [][LET p == Foreground
       IN  /\ pc'[p] # pc[p] => <<pc[p], pc'[p]>> \in CycleEdges
           /\ (pc[p] = "idle" /\ pc'[p] = "load") =>
                 cyc'[p].config = Credentials(env)
           /\ (pc'[p] \in CyclePcs /\ cyc'[p].previous_data # cyc[p].previous_data)
                 => pc[p] = "load" /\ pc'[p] = "scrape"
           /\ (pc'[p] \in CyclePcs /\ cyc'[p].current_data # cyc[p].current_data)
                 => pc[p] = "scrape"
           /\ (pc'[p] \in CyclePcs /\ cyc'[p].message # cyc[p].message)
                 => pc[p] = "diff"
           /\ (pc'[p] \in CyclePcs /\ cyc'[p].success # cyc[p].success)
                 => pc[p] = "send"
           /\ file' # file => pc[p] \in {"save", "write"}
           /\ \A h \in {hist'[i] : i \in 1..Len(hist')} :
                 /\ NonEmptyFetch(h) => ReachedDelivery(h)
                 /\ ReachedDelivery(h) =>
                       NonEmptyFetch(h) /\ h.frame.message # <<>>
      ]_vars

\* a step of the manual cycle of the foreground session
ManualStep ==
    /\ pc'[Foreground] # pc[Foreground]
    /\ <<pc[Foreground], pc'[Foreground]>> \in CycleEdges

\* C18: a step of a manual cycle changes neither the running flag, the thread
\* handle, the registered timer entries nor any scheduler thread, and what it
\* does to the stored file depends on the cycle alone: nothing before the
\* save, and the fetched Snapshot once the save completes. Every other step
\* (of start(), stop(), a configuration edit, a scheduler thread starting or
\* polling) leaves the stored file and the manual cycle's frame as they were.
C18_ManualRunIndependentOfScheduler ==
    [][/\ ManualStep =>
            /\ UNCHANGED <<scheduler_running, scheduler_thread, jobs, due, thr,
                           stop_requested, env>>
            /\ \A t \in Threads : pc'[t] = pc[t]
            /\ pc[Foreground] \notin {"save", "write"} => file' = file
            /\ pc[Foreground] = "save" => file' \in {file, Garbage}
            /\ pc[Foreground] = "write" =>
                  file' \in {Json(cyc[Foreground].current_data), Garbage}
       /\ ~ManualStep => (file' = file /\ cyc' = cyc)
      ]_vars

\* C18 witness: the scheduler is running, its loop is alive with its timer
\* entry registered, and a manual cycle begun meanwhile has delivered and is
\* writing the state file.
C18_Witness ==
    /\ scheduler_running
    /\ \E t \in Threads : pc[t] \in {"loop", "runjobs"} /\ \E j \in jobs : j.id = t
    /\ pc[Foreground] = "write"
    /\ cyc[Foreground].success

\* the thread exists and has not ended: it is starting or in its loop
Living(t) == pc[t] \in {"sched_config", "sched_do"} \cup LoopPcs

\* C19: whenever the running flag is set and no start() is between setting
\* it and creating its thread, some scheduler thread is starting or polling.
C19_FlagAgreesWithThread ==
    (scheduler_running /\ Starting = {}) => \E t \in Threads : Living(t)

\* C20: with cycles run for ever on the fixed content C = [A, B], credentials
\* configured, and delivery and saving succeeding again and again: eventually
\* a message listing the records of C that are new is delivered, eventually
\* the stored Snapshot is C, and from some point on no cycle reports a record
\* of C as new.
C20_EventuallyNotifiedAndStored ==
    /\ <>(/\ pc[Foreground] = "save" /\ cyc[Foreground].success
          /\ Section(cyc[Foreground].message, "new")
                = Listing(cyc[Foreground].new_items.news, "new"))
    /\ <>(\E C \in LivePage : file = Json(C))
    /\ <>[](pc[Foreground] \in {"send", "save", "write"} =>
                cyc[Foreground].new_items.news = <<>>)
====
